---- MODULE Spec2Model ----
(***************************************************************************)
(* KVStorage<Clock> (include/kv_storage.hpp): a key-value store with       *)
(* per-key expiry, kept in three coordinated containers:                   *)
(*   key_index_    std::unordered_map<Key, ValueMetadata>                  *)
(*   sorted_index_ std::set<KeyView>                                       *)
(*   ttl_index_    std::multimap<TimePoint, KeyView>                       *)
(* Tree nodes are addressed by iterators; an iterator is modelled as the   *)
(* identity (address) of its node, and a freed address is handed out again *)
(* by the next allocation.                                                 *)
(***************************************************************************)
EXTENDS Integers, Sequences, FiniteSets, TLC

\* ------------------------------------------------------------------ bounds
\* The clock is advanced up to MaxTime; ttl arguments range over 0..MaxTtl;
\* count arguments over 0..MaxCount; the constructor gets up to MaxEntries
\* input triples.
MaxTime == 1
MaxTtl == 1
MaxCount == 2
MaxEntries == 2

\* Keys are strings, modelled as sequences of character codes so that the
\* lexicographic order of std::string_view is computed, the empty string
\* included.
Keys == {<< >>, <<1, 1>>}
\* Arguments of get / remove / getManySorted: the stored keys, a key that
\* falls between the stored keys (and is a prefix of one) and a key greater
\* than every stored key.
QueryKeys == Keys \cup {<<1>>, <<2>>}
Values == {"v1", "v2"}
Ttls == 0..MaxTtl
Counts == 0..MaxCount

\* ------------------------------------------------------- std::optional<T>
Nullopt == << >>
Some(x) == <<x>>
HasValue(o) == o # << >>
ValueOf(o) == o[1]

\* kNoExpiry{0}: the ttl that means "never expires".
kNoExpiry == 0

\* The past-the-end iterator of either tree.
End == 0

\* --------------------------------------------------- std::string_view <
RECURSIVE KeyLess(_, _)
KeyLess(a, b) ==
  IF b = << >> THEN FALSE
  ELSE IF a = << >> THEN TRUE
  ELSE IF a[1] # b[1] THEN a[1] < b[1]
  ELSE KeyLess(Tail(a), Tail(b))

\* ------------------------------------------------------- tree containers
\* A tree is the sequence of its nodes in iteration order; each node
\* carries its identity `id` (what an iterator holds).
NodeIds(tree) == {tree[i].id : i \in 1..Len(tree)}

\* Node allocation: the lowest free address.
NewNode(tree) ==
  CHOOSE n \in 1..(Len(tree) + 1) :
    n \notin NodeIds(tree) /\ \A m \in 1..(n - 1) : m \in NodeIds(tree)

InsertAt(tree, pos, node) ==
  SubSeq(tree, 1, pos - 1) \o <<node>> \o SubSeq(tree, pos, Len(tree))

RemoveAt(tree, pos) ==
  SubSeq(tree, 1, pos - 1) \o SubSeq(tree, pos + 1, Len(tree))

\* Position of the node an iterator designates; 0 if the iterator does not
\* designate a live node of the tree (end(), or a node that was erased).
PosOf(tree, it) ==
  IF \E i \in 1..Len(tree) : tree[i].id = it
  THEN CHOOSE i \in 1..Len(tree) : tree[i].id = it
  ELSE 0

\* container.erase(iterator).  Erasing through an iterator that designates
\* no live node is undefined behaviour: reported in `ub`.
Erase(tree, it) ==
  IF PosOf(tree, it) # 0
  THEN [tree |-> RemoveAt(tree, PosOf(tree, it)), ub |-> FALSE]
  ELSE [tree |-> tree, ub |-> TRUE]

\* std::set<KeyView>::lower_bound(key): position of the first node whose
\* key is not less than key, Len+1 for end().
lower_bound(tree, key) ==
  IF \E i \in 1..Len(tree) : ~KeyLess(tree[i].key, key)
  THEN CHOOSE i \in 1..Len(tree) :
         /\ ~KeyLess(tree[i].key, key)
         /\ \A j \in 1..(i - 1) : KeyLess(tree[j].key, key)
  ELSE Len(tree) + 1

\* std::set<KeyView>::emplace(key): an equal key blocks the insertion and
\* its node is returned; otherwise a new node is linked in at its place in
\* key order.
SortedEmplace(tree, key) ==
  LET pos == lower_bound(tree, key) IN
  IF pos <= Len(tree) /\ tree[pos].key = key
  THEN [tree |-> tree, it |-> tree[pos].id]
  ELSE LET n == NewNode(tree) IN
       [tree |-> InsertAt(tree, pos, [key |-> key, id |-> n]), it |-> n]

\* std::multimap<TimePoint, KeyView>::upper_bound(time).
upper_bound(tree, time) ==
  IF \E i \in 1..Len(tree) : time < tree[i].time
  THEN CHOOSE i \in 1..Len(tree) :
         /\ time < tree[i].time
         /\ \A j \in 1..(i - 1) : ~(time < tree[j].time)
  ELSE Len(tree) + 1

\* std::multimap<TimePoint, KeyView>::emplace(time, key): always inserts,
\* after every node of equal time.
TtlEmplace(tree, time, key) ==
  LET n == NewNode(tree) IN
  [tree |-> InsertAt(tree, upper_bound(tree, time),
                     [time |-> time, key |-> key, id |-> n]),
   it |-> n]

\* ------------------------------------------------------------ the store
\* A store value S is [key_index_, sorted_index_, ttl_index_, ub]; ub is
\* set once an operation has executed undefined behaviour.
Store(k, s, t, u) ==
  [key_index_ |-> k, sorted_index_ |-> s, ttl_index_ |-> t, ub |-> u]

EmptyStore == Store(<< >>, << >>, << >>, FALSE)

\* struct ValueMetadata
ValueMetadata(value, expiry, sorted_it, ttl_it) ==
  [value |-> value, expiry |-> expiry, sorted_it |-> sorted_it,
   ttl_it |-> ttl_it]

\* key_index_ with key mapped to rec (inserting or replacing).
WithEntry(key_index, key, rec) ==
  [k \in (DOMAIN key_index) \cup {key} |->
     IF k = key THEN rec ELSE key_index[k]]

\* key_index_.erase(entry_it) / key_index_.extract(entry_it)
WithoutEntry(key_index, key) ==
  [k \in (DOMAIN key_index) \ {key} |-> key_index[k]]

\* Variant of set_impl_inserted: the iterator returned by
\* ttl_index_.emplace is not stored, ttl_it stays ttl_index_.end().
set_impl_inserted_drops_ttl_it(S, key, value, new_expiry) ==
  LET se == SortedEmplace(S.sorted_index_, key)
      te == IF HasValue(new_expiry)
            THEN TtlEmplace(S.ttl_index_, ValueOf(new_expiry), key)
            ELSE [tree |-> S.ttl_index_, it |-> End]
  IN Store(WithEntry(S.key_index_, key,
                     ValueMetadata(value, new_expiry, se.it, End)),
           se.tree, te.tree, S.ub)

\* set_impl, the branch taken when try_emplace inserted a new record.
set_impl_inserted(S, key, value, new_expiry) ==
  LET se == SortedEmplace(S.sorted_index_, key)
      te == IF HasValue(new_expiry)
            THEN TtlEmplace(S.ttl_index_, ValueOf(new_expiry), key)
            ELSE [tree |-> S.ttl_index_, it |-> End]
  IN Store(WithEntry(S.key_index_, key,
                     ValueMetadata(value, new_expiry, se.it, te.it)),
           se.tree, te.tree, S.ub)

\* Variant of set_impl_existing: the old Ttl Index node is not erased
\* before the new one is emplaced.
set_impl_existing_keeps_stale_ttl(S, key, value, new_expiry) ==
  LET old == S.key_index_[key]
      te == IF HasValue(new_expiry)
            THEN TtlEmplace(S.ttl_index_, ValueOf(new_expiry), key)
            ELSE [tree |-> S.ttl_index_, it |-> End]
  IN Store(WithEntry(S.key_index_, key,
                     ValueMetadata(value, new_expiry, old.sorted_it, te.it)),
           S.sorted_index_, te.tree, S.ub)

\* Variant of set_impl_existing: the value of the existing record is not
\* assigned (try_emplace alone does not overwrite).
set_impl_existing_keeps_value(S, key, value, new_expiry) ==
  LET old == S.key_index_[key]
      er == IF HasValue(old.expiry)
            THEN Erase(S.ttl_index_, old.ttl_it)
            ELSE [tree |-> S.ttl_index_, ub |-> FALSE]
      te == IF HasValue(new_expiry)
            THEN TtlEmplace(er.tree, ValueOf(new_expiry), key)
            ELSE [tree |-> er.tree, it |-> End]
  IN Store(WithEntry(S.key_index_, key,
                     ValueMetadata(old.value, new_expiry, old.sorted_it,
                                   te.it)),
           S.sorted_index_, te.tree, S.ub \/ er.ub)

\* Variant of set_impl_existing: the ttl is reset only for a record that
\* already had an expiry; a record without expiry keeps none.
set_impl_existing_keeps_no_expiry(S, key, value, new_expiry) ==
  LET old == S.key_index_[key]
      expiry == IF HasValue(old.expiry) THEN new_expiry ELSE Nullopt
      er == IF HasValue(old.expiry)
            THEN Erase(S.ttl_index_, old.ttl_it)
            ELSE [tree |-> S.ttl_index_, ub |-> FALSE]
      te == IF HasValue(expiry)
            THEN TtlEmplace(er.tree, ValueOf(expiry), key)
            ELSE [tree |-> er.tree, it |-> End]
  IN Store(WithEntry(S.key_index_, key,
                     ValueMetadata(value, expiry, old.sorted_it, te.it)),
           S.sorted_index_, te.tree, S.ub \/ er.ub)

\* Variant of set_impl's existing-key branch: ttl = 0 leaves the expiry and
\* the Ttl Index node the record had.
set_impl_existing_zero_keeps_expiry(S, key, value, new_expiry) ==
  LET old == S.key_index_[key]
      er == IF HasValue(old.expiry)
            THEN Erase(S.ttl_index_, old.ttl_it)
            ELSE [tree |-> S.ttl_index_, ub |-> FALSE]
  IN IF HasValue(new_expiry)
     THEN LET te == TtlEmplace(er.tree, ValueOf(new_expiry), key) IN
          Store(WithEntry(S.key_index_, key,
                          ValueMetadata(value, new_expiry, old.sorted_it,
                                        te.it)),
                S.sorted_index_, te.tree, S.ub \/ er.ub)
     ELSE Store(WithEntry(S.key_index_, key,
                          ValueMetadata(value, old.expiry, old.sorted_it,
                                        old.ttl_it)),
                S.sorted_index_, S.ttl_index_, S.ub)

\* Variant of set_impl's existing-key branch: the record is rebuilt as
\* try_emplace builds a new one, with sorted_it = sorted_index_.end().
set_impl_existing_resets_sorted_it(S, key, value, new_expiry) ==
  LET old == S.key_index_[key]
      er == IF HasValue(old.expiry)
            THEN Erase(S.ttl_index_, old.ttl_it)
            ELSE [tree |-> S.ttl_index_, ub |-> FALSE]
      te == IF HasValue(new_expiry)
            THEN TtlEmplace(er.tree, ValueOf(new_expiry), key)
            ELSE [tree |-> er.tree, it |-> End]
  IN Store(WithEntry(S.key_index_, key,
                     ValueMetadata(value, new_expiry, End, te.it)),
           S.sorted_index_, te.tree, S.ub \/ er.ub)

\* set_impl, the branch taken when the key already had a record.
set_impl_existing(S, key, value, new_expiry) ==
  LET old == S.key_index_[key]
      er == IF HasValue(old.expiry)
            THEN Erase(S.ttl_index_, old.ttl_it)
            ELSE [tree |-> S.ttl_index_, ub |-> FALSE]
      te == IF HasValue(new_expiry)
            THEN TtlEmplace(er.tree, ValueOf(new_expiry), key)
            ELSE [tree |-> er.tree, it |-> End]
  IN Store(WithEntry(S.key_index_, key,
                     ValueMetadata(value, new_expiry, old.sorted_it, te.it)),
           S.sorted_index_, te.tree, S.ub \/ er.ub)

\* KVStorage::set_impl(key, value, ttl, now)
set_impl(S, key, value, ttl, now) ==
  LET new_expiry == IF ttl = kNoExpiry THEN Nullopt ELSE Some(now + ttl)
      inserted == key \notin DOMAIN S.key_index_
  IN IF inserted
     THEN set_impl_inserted(S, key, value, new_expiry)
     ELSE set_impl_existing(S, key, value, new_expiry)

\* Variant of the constructor: the clock, ticking between entries, is read
\* anew for every input triple.
RECURSIVE Construct_reads_clock_per_entry(_, _, _)
Construct_reads_clock_per_entry(S, entries, now) ==
  IF entries = << >> THEN S
  ELSE Construct_reads_clock_per_entry(
         set_impl(S, entries[1][1], entries[1][2], entries[1][3], now),
         Tail(entries), now + 1)

\* KVStorage::KVStorage(entries, clock): one `now`, then set_impl per
\* input triple in order.
RECURSIVE Construct(_, _, _)
Construct(S, entries, now) ==
  IF entries = << >> THEN S
  ELSE Construct(set_impl(S, entries[1][1], entries[1][2], entries[1][3], now),
                 Tail(entries), now)

\* Variant of remove: the Sorted Index node is left in place.
remove_keeps_sorted(S, key) ==
  IF key \notin DOMAIN S.key_index_
  THEN [S |-> S, result |-> FALSE]
  ELSE LET e == S.key_index_[key]
           te == IF HasValue(e.expiry)
                 THEN Erase(S.ttl_index_, e.ttl_it)
                 ELSE [tree |-> S.ttl_index_, ub |-> FALSE]
       IN [S |-> Store(WithoutEntry(S.key_index_, key), S.sorted_index_,
                       te.tree, S.ub \/ te.ub),
           result |-> TRUE]

\* Variant of remove: the Primary Index record is left in place
\* (key_index_.erase is missing).
remove_keeps_record(S, key) ==
  IF key \notin DOMAIN S.key_index_
  THEN [S |-> S, result |-> FALSE]
  ELSE LET e == S.key_index_[key]
           se == Erase(S.sorted_index_, e.sorted_it)
           te == IF HasValue(e.expiry)
                 THEN Erase(S.ttl_index_, e.ttl_it)
                 ELSE [tree |-> S.ttl_index_, ub |-> FALSE]
       IN [S |-> Store(S.key_index_, se.tree, te.tree,
                       S.ub \/ se.ub \/ te.ub),
           result |-> TRUE]

\* Variant of remove: the record is looked up by lower bound in the Sorted
\* Index instead of by exact match, so an absent key removes its successor.
remove_by_lower_bound(S, key) ==
  LET pos == lower_bound(S.sorted_index_, key) IN
  IF pos > Len(S.sorted_index_)
  THEN [S |-> S, result |-> FALSE]
  ELSE LET found == S.sorted_index_[pos].key
           e == S.key_index_[found]
           se == Erase(S.sorted_index_, e.sorted_it)
           te == IF HasValue(e.expiry)
                 THEN Erase(S.ttl_index_, e.ttl_it)
                 ELSE [tree |-> S.ttl_index_, ub |-> FALSE]
       IN [S |-> Store(WithoutEntry(S.key_index_, found), se.tree, te.tree,
                       S.ub \/ se.ub \/ te.ub),
           result |-> TRUE]

\* Variant of remove: the Ttl Index node is left in place.
remove_keeps_ttl(S, key) ==
  IF key \notin DOMAIN S.key_index_
  THEN [S |-> S, result |-> FALSE]
  ELSE LET e == S.key_index_[key]
           se == Erase(S.sorted_index_, e.sorted_it)
       IN [S |-> Store(WithoutEntry(S.key_index_, key), se.tree,
                       S.ttl_index_, S.ub \/ se.ub),
           result |-> TRUE]

\* Variant of remove: the Ttl Index is erased by key, that is by expiry
\* time, which drops every node of that time.
remove_erases_ttl_by_time(S, key) ==
  IF key \notin DOMAIN S.key_index_
  THEN [S |-> S, result |-> FALSE]
  ELSE LET e == S.key_index_[key]
           se == Erase(S.sorted_index_, e.sorted_it)
           Other(n) == n.time # ValueOf(e.expiry)
       IN [S |-> Store(WithoutEntry(S.key_index_, key), se.tree,
                       IF HasValue(e.expiry)
                       THEN SelectSeq(S.ttl_index_, Other)
                       ELSE S.ttl_index_,
                       S.ub \/ se.ub),
           result |-> TRUE]

\* KVStorage::remove(key)
remove(S, key) ==
  IF key \notin DOMAIN S.key_index_
  THEN [S |-> S, result |-> FALSE]
  ELSE LET e == S.key_index_[key]
           se == Erase(S.sorted_index_, e.sorted_it)
           te == IF HasValue(e.expiry)
                 THEN Erase(S.ttl_index_, e.ttl_it)
                 ELSE [tree |-> S.ttl_index_, ub |-> FALSE]
       IN [S |-> Store(WithoutEntry(S.key_index_, key), se.tree, te.tree,
                       S.ub \/ se.ub \/ te.ub),
           result |-> TRUE]

\* Variant of get: a record found expired is reaped on the spot.
get_reaps_expired(S, key, now) ==
  IF key \notin DOMAIN S.key_index_ THEN [S |-> S, result |-> Nullopt]
  ELSE LET expiry == S.key_index_[key].expiry IN
       IF HasValue(expiry) /\ ValueOf(expiry) <= now
       THEN [S |-> remove(S, key).S, result |-> Nullopt]
       ELSE [S |-> S, result |-> Some(S.key_index_[key].value)]

\* Variant of get: the expiry comparison is strict, so a record is still
\* returned at the very instant of its expiry.
get_expires_late(S, key, now) ==
  IF key \notin DOMAIN S.key_index_ THEN [S |-> S, result |-> Nullopt]
  ELSE LET expiry == S.key_index_[key].expiry IN
       IF HasValue(expiry) /\ ValueOf(expiry) < now
       THEN [S |-> S, result |-> Nullopt]
       ELSE [S |-> S, result |-> Some(S.key_index_[key].value)]

\* Variant of get: the expiry is not consulted.
get_ignores_expiry(S, key, now) ==
  IF key \notin DOMAIN S.key_index_ THEN [S |-> S, result |-> Nullopt]
  ELSE [S |-> S, result |-> Some(S.key_index_[key].value)]

\* KVStorage::get(key), reading the clock as `now`.  Like every public
\* operation it yields the store after the call and the returned value; get
\* is a const member function.
get(S, key, now) ==
  IF key \notin DOMAIN S.key_index_ THEN [S |-> S, result |-> Nullopt]
  ELSE LET expiry == S.key_index_[key].expiry IN
       IF HasValue(expiry) /\ ValueOf(expiry) <= now
       THEN [S |-> S, result |-> Nullopt]
       ELSE [S |-> S, result |-> Some(S.key_index_[key].value)]

\* The while loop of getManySorted from iterator position pos on.  visited
\* counts the loop iterations.  *first_it missing from key_index_ makes
\* entry_it the end iterator, whose dereference is undefined behaviour.
RECURSIVE ScanSorted(_, _, _, _, _, _)
ScanSorted(S, pos, count, now, result, visited) ==
  IF ~(pos <= Len(S.sorted_index_) /\ Len(result) < count)
  THEN [result |-> result, visited |-> visited, ub |-> FALSE]
  ELSE LET key == S.sorted_index_[pos].key IN
       IF key \notin DOMAIN S.key_index_
       THEN [result |-> result, visited |-> visited + 1, ub |-> TRUE]
       ELSE LET expiry == S.key_index_[key].expiry
                keep == ~HasValue(expiry) \/ ~(ValueOf(expiry) <= now)
            IN ScanSorted(S, pos + 1, count, now,
                          IF keep
                          THEN Append(result, <<key, S.key_index_[key].value>>)
                          ELSE result,
                          visited + 1)

\* Variant of getManySorted: the scan starts after a stored key equal to
\* the query key (exclusive lower bound).
getManySorted_exclusive(S, key, count, now) ==
  LET lb == lower_bound(S.sorted_index_, key)
      start == IF lb <= Len(S.sorted_index_) /\ S.sorted_index_[lb].key = key
               THEN lb + 1 ELSE lb
      r == ScanSorted(S, start, count, now, << >>, 0)
  IN [S |-> Store(S.key_index_, S.sorted_index_, S.ttl_index_, S.ub \/ r.ub),
      result |-> r.result, visited |-> r.visited]

\* Variant of getManySorted: count is tested only after an entry has been
\* appended, so a call with count = 0 returns one entry.
getManySorted_tests_count_late(S, key, count, now) ==
  LET r == ScanSorted(S, lower_bound(S.sorted_index_, key),
                      IF count = 0 THEN 1 ELSE count, now, << >>, 0)
  IN [S |-> Store(S.key_index_, S.sorted_index_, S.ttl_index_, S.ub \/ r.ub),
      result |-> r.result, visited |-> r.visited]

\* KVStorage::getManySorted(key, count), reading the clock as `now`; a
\* const member function.
getManySorted(S, key, count, now) ==
  LET r == ScanSorted(S, lower_bound(S.sorted_index_, key), count, now,
                      << >>, 0)
  IN [S |-> Store(S.key_index_, S.sorted_index_, S.ttl_index_, S.ub \/ r.ub),
      result |-> r.result, visited |-> r.visited]

\* Variant of removeOneExpiredEntry: once the earliest Ttl Index node has
\* expired, the node taken is the one with the greatest expiry time.
removeOneExpiredEntry_takes_greatest(S, now) ==
  IF S.ttl_index_ = << >> \/ ~(S.ttl_index_[1].time <= now)
  THEN [S |-> S, result |-> Nullopt]
  ELSE LET key == S.ttl_index_[Len(S.ttl_index_)].key
           e == S.key_index_[key]
           se == Erase(S.sorted_index_, e.sorted_it)
           te == Erase(S.ttl_index_, e.ttl_it)
       IN [S |-> Store(WithoutEntry(S.key_index_, key), se.tree, te.tree,
                       S.ub \/ se.ub \/ te.ub),
           result |-> Some(<<key, e.value>>)]

\* Variant of removeOneExpiredEntry: the earliest Ttl Index node is taken
\* without comparing its time with the clock.
removeOneExpiredEntry_ignores_time(S, now) ==
  IF S.ttl_index_ = << >>
  THEN [S |-> S, result |-> Nullopt]
  ELSE LET key == S.ttl_index_[1].key
           e == S.key_index_[key]
           se == Erase(S.sorted_index_, e.sorted_it)
           te == Erase(S.ttl_index_, e.ttl_it)
       IN [S |-> Store(WithoutEntry(S.key_index_, key), se.tree, te.tree,
                       S.ub \/ se.ub \/ te.ub),
           result |-> Some(<<key, e.value>>)]

\* Variant of removeOneExpiredEntry: the Ttl Index is erased by key, that
\* is by expiry time, which drops every node of that time.
removeOneExpiredEntry_erases_by_time(S, now) ==
  IF S.ttl_index_ = << >> \/ ~(S.ttl_index_[1].time <= now)
  THEN [S |-> S, result |-> Nullopt]
  ELSE LET key == S.ttl_index_[1].key
           e == S.key_index_[key]
           se == Erase(S.sorted_index_, e.sorted_it)
           Later(n) == n.time # S.ttl_index_[1].time
       IN [S |-> Store(WithoutEntry(S.key_index_, key), se.tree,
                       SelectSeq(S.ttl_index_, Later), S.ub \/ se.ub),
           result |-> Some(<<key, e.value>>)]

\* Variant of removeOneExpiredEntry: the Sorted Index node is left in place.
removeOneExpiredEntry_keeps_sorted(S, now) ==
  IF S.ttl_index_ = << >> \/ ~(S.ttl_index_[1].time <= now)
  THEN [S |-> S, result |-> Nullopt]
  ELSE LET key == S.ttl_index_[1].key
           e == S.key_index_[key]
           te == Erase(S.ttl_index_, e.ttl_it)
       IN [S |-> Store(WithoutEntry(S.key_index_, key), S.sorted_index_,
                       te.tree, S.ub \/ te.ub),
           result |-> Some(<<key, e.value>>)]

\* Variant of removeOneExpiredEntry: the time comparison is strict, so an
\* entry is not taken at the very instant of its expiry.
removeOneExpiredEntry_strict(S, now) ==
  IF S.ttl_index_ = << >> \/ ~(S.ttl_index_[1].time < now)
  THEN [S |-> S, result |-> Nullopt]
  ELSE LET key == S.ttl_index_[1].key
           e == S.key_index_[key]
           se == Erase(S.sorted_index_, e.sorted_it)
           te == Erase(S.ttl_index_, e.ttl_it)
       IN [S |-> Store(WithoutEntry(S.key_index_, key), se.tree, te.tree,
                       S.ub \/ se.ub \/ te.ub),
           result |-> Some(<<key, e.value>>)]

\* KVStorage::removeOneExpiredEntry(), reading the clock as `now`
removeOneExpiredEntry(S, now) ==
  IF S.ttl_index_ = << >> \/ ~(S.ttl_index_[1].time <= now)
  THEN [S |-> S, result |-> Nullopt]
  ELSE LET key == S.ttl_index_[1].key IN
       IF key \notin DOMAIN S.key_index_
       THEN [S |-> Store(S.key_index_, S.sorted_index_, S.ttl_index_, TRUE),
             result |-> Nullopt]
       ELSE LET e == S.key_index_[key]
                se == Erase(S.sorted_index_, e.sorted_it)
                te == Erase(S.ttl_index_, e.ttl_it)
            IN [S |-> Store(WithoutEntry(S.key_index_, key), se.tree, te.tree,
                            S.ub \/ se.ub \/ te.ub),
                result |-> Some(<<key, e.value>>)]

\* ---------------------------------------------------------------- state
\* key_index_, sorted_index_, ttl_index_ : the members of KVStorage
\* ub     : an operation has executed undefined behaviour
\* clock  : the reading of Clock::now()
\* last   : the latest call, its arguments and what it returned
\* latest : per stored key, the ttl of the latest set (or constructor
\*          triple) and, for ttl > 0, the clock reading it sampled
VARIABLES key_index_, sorted_index_, ttl_index_, ub, clock, last, latest

vars == <<key_index_, sorted_index_, ttl_index_, ub, clock, last, latest>>

indices == <<key_index_, sorted_index_, ttl_index_>>

Cur == Store(key_index_, sorted_index_, ttl_index_, ub)

\* What a build may leave behind once undefined behaviour was executed:
\* the containers as they were, or with any one tree node lost.
Outcomes(S) ==
  IF ~S.ub THEN {S}
  ELSE {S}
       \cup {Store(S.key_index_, RemoveAt(S.sorted_index_, i), S.ttl_index_,
                   TRUE) : i \in 1..Len(S.sorted_index_)}
       \cup {Store(S.key_index_, S.sorted_index_, RemoveAt(S.ttl_index_, i),
                   TRUE) : i \in 1..Len(S.ttl_index_)}

Becomes(S) ==
  \E O \in Outcomes(S) :
    /\ key_index_' = O.key_index_
    /\ sorted_index_' = O.sorted_index_
    /\ ttl_index_' = O.ttl_index_
    /\ ub' = O.ub

\* The record of a call: its arguments, the clock reading it sampled, what
\* it returned, for set whether try_emplace inserted, for set / remove /
\* removeOneExpiredEntry the expiry the key had before the call, for
\* getManySorted the number of loop iterations, for get the call that
\* came immediately before when that was a set of the same key, for remove
\* the call that came immediately before when that was a remove or get of
\* the same key, and for removeOneExpiredEntry the call that came
\* immediately before when that was a removeOneExpiredEntry too.  The
\* record of the constructor holds its input sequence in `result`.
Call(op, key, value, ttl, count, now, result, inserted, old, visited) ==
  [op |-> op, key |-> key, value |-> value, ttl |-> ttl, count |-> count,
   now |-> now, result |-> result, inserted |-> inserted, old |-> old,
   visited |-> visited, prev |-> Nullopt]

Preceding(op, key) ==
  IF last.key = key
     /\ \/ op = "get" /\ last.op = "set"
        \/ op = "remove" /\ last.op \in {"remove", "get"}
  THEN Some([last EXCEPT !.prev = Nullopt])
  ELSE Nullopt

PrecedingReap ==
  IF last.op = "removeOneExpiredEntry"
  THEN Some([last EXCEPT !.prev = Nullopt])
  ELSE Nullopt

OldExpiry(key) ==
  IF key \in DOMAIN key_index_ THEN key_index_[key].expiry ELSE Nullopt

\* The history entry of a set (or constructor triple).
SetRecord(value, ttl, now) ==
  [value |-> value, ttl |-> ttl, t0 |-> IF ttl = kNoExpiry THEN 0 ELSE now]

RECURSIVE LatestOf(_, _)
LatestOf(entries, now) ==
  IF entries = << >> THEN << >>
  ELSE LET n == Len(entries)
           e == entries[n]
           before == LatestOf(SubSeq(entries, 1, n - 1), now)
       IN WithEntry(before, e[1], SetRecord(e[2], e[3], now))

InputEntry == Keys \X Values \X Ttls

EntrySeqs == UNION {[1..n -> InputEntry] : n \in 0..MaxEntries}

Init ==
  /\ clock = 0
  /\ \E entries \in EntrySeqs :
       LET S == Construct(EmptyStore, entries, 0) IN
       /\ key_index_ = S.key_index_
       /\ sorted_index_ = S.sorted_index_
       /\ ttl_index_ = S.ttl_index_
       /\ ub = S.ub
       /\ latest = LatestOf(entries, 0)
       /\ last = Call("construct", << >>, "", 0, 0, 0, entries, FALSE,
                      Nullopt, 0)

Set(key, value, ttl) ==
  /\ Becomes(set_impl(Cur, key, value, ttl, clock))
  /\ last' = Call("set", key, value, ttl, 0, clock, Nullopt,
                  key \notin DOMAIN key_index_, OldExpiry(key), 0)
  /\ latest' = WithEntry(latest, key, SetRecord(value, ttl, clock))
  /\ UNCHANGED clock

Remove(key) ==
  LET r == remove(Cur, key) IN
  /\ Becomes(r.S)
  /\ last' = [Call("remove", key, "", 0, 0, clock, r.result, FALSE,
                   OldExpiry(key), 0) EXCEPT !.prev = Preceding("remove", key)]
  /\ latest' = WithoutEntry(latest, key)
  /\ UNCHANGED clock

Get(key) ==
  LET r == get(Cur, key, clock) IN
  /\ Becomes(r.S)
  /\ last' = [Call("get", key, "", 0, 0, clock, r.result, FALSE, Nullopt, 0)
                EXCEPT !.prev = Preceding("get", key)]
  /\ UNCHANGED <<clock, latest>>

GetManySorted(key, count) ==
  LET r == getManySorted(Cur, key, count, clock) IN
  /\ Becomes(r.S)
  /\ last' = Call("getManySorted", key, "", 0, count, clock, r.result, FALSE,
                  Nullopt, r.visited)
  /\ UNCHANGED <<clock, latest>>

RemoveOneExpiredEntry ==
  LET r == removeOneExpiredEntry(Cur, clock) IN
  /\ Becomes(r.S)
  /\ last' = [Call("removeOneExpiredEntry", << >>, "", 0, 0, clock,
                   r.result, FALSE,
                   IF HasValue(r.result)
                   THEN OldExpiry(ValueOf(r.result)[1]) ELSE Nullopt,
                   0)
                EXCEPT !.prev = PrecedingReap]
  /\ latest' = IF HasValue(r.result)
               THEN WithoutEntry(latest, ValueOf(r.result)[1])
               ELSE latest
  /\ UNCHANGED clock

\* Variant of ManualClock::advance: the clock may also be moved backwards.
Advance_any_direction ==
  /\ \E t \in (0..MaxTime) \ {clock} :
       /\ clock' = t
       /\ last' = Call("advance", << >>, "", 0, 0, t, Nullopt, FALSE,
                       Nullopt, 0)
  /\ UNCHANGED <<key_index_, sorted_index_, ttl_index_, ub, latest>>

\* ManualClock::advance
Advance ==
  /\ clock < MaxTime
  /\ clock' = clock + 1
  /\ last' = Call("advance", << >>, "", 0, 0, clock + 1, Nullopt, FALSE,
                  Nullopt, 0)
  /\ UNCHANGED <<key_index_, sorted_index_, ttl_index_, ub, latest>>

Next ==
  \/ \E key \in Keys, value \in Values, ttl \in Ttls : Set(key, value, ttl)
  \/ \E key \in QueryKeys : Remove(key)
  \/ \E key \in QueryKeys : Get(key)
  \/ \E key \in QueryKeys, count \in Counts : GetManySorted(key, count)
  \/ RemoveOneExpiredEntry
  \/ Advance

Spec == Init /\ [][Next]_vars

\* ------------------------------------------------------------ properties
SortedKeys == {sorted_index_[i].key : i \in 1..Len(sorted_index_)}

TtlKeys == {ttl_index_[i].key : i \in 1..Len(ttl_index_)}

\* The positions of the Ttl Index nodes that refer to key k.
TtlNodesOf(k) == {i \in 1..Len(ttl_index_) : ttl_index_[i].key = k}

\* C1: in every reachable state the keys of the Sorted Index are exactly the
\* keys of the Primary Index, and the Sorted Index holds one node per key.
C1_SortedMatchesPrimary ==
  /\ SortedKeys = DOMAIN key_index_
  /\ \A i, j \in 1..Len(sorted_index_) :
       sorted_index_[i].key = sorted_index_[j].key => i = j

\* C1 witness: removeOneExpiredEntry has just reaped one of two stored keys.
C1_Witness ==
  /\ last.op = "removeOneExpiredEntry"
  /\ HasValue(last.result)
  /\ Len(sorted_index_) = 1
  /\ ValueOf(last.result)[1] \notin SortedKeys

\* C2: in every reachable state a key has a Ttl Index node iff its record
\* has a finite expiry; no Ttl Index node refers to a key that is not
\* stored, and no key has two Ttl Index nodes.
C2_TtlMatchesExpiry ==
  /\ \A k \in DOMAIN key_index_ :
       HasValue(key_index_[k].expiry) <=> (k \in TtlKeys)
  /\ TtlKeys \subseteq DOMAIN key_index_
  /\ \A k \in TtlKeys : Cardinality(TtlNodesOf(k)) = 1

\* C2 witness: set on a key that had a finite expiry gave it another finite
\* expiry, while the other key holds a Ttl Index node too.
C2_Witness ==
  /\ last.op = "set"
  /\ ~last.inserted
  /\ HasValue(last.old)
  /\ last.ttl > 0
  /\ ValueOf(last.old) # last.now + last.ttl
  /\ Len(ttl_index_) = 2

\* C3: in every reachable state the stored Sorted handle of every key K
\* designates the Sorted Index node of K, the stored Ttl handle of a key
\* with finite expiry designates a Ttl Index node whose key is K and whose
\* time is K's expiry, and no operation has gone through a handle whose
\* node was erased.
C3_HandlesValid ==
  /\ ~ub
  /\ \A k \in DOMAIN key_index_ :
       LET e == key_index_[k]
           sp == PosOf(sorted_index_, e.sorted_it)
           tp == PosOf(ttl_index_, e.ttl_it)
       IN /\ sp # 0
          /\ sorted_index_[sp].key = k
          /\ HasValue(e.expiry) =>
               /\ tp # 0
               /\ ttl_index_[tp].key = k
               /\ ttl_index_[tp].time = ValueOf(e.expiry)

\* C3 witness: two keys share one expiry time and one of them has just been
\* set again, so its Ttl Index node was erased and emplaced anew.
C3_Witness ==
  /\ last.op = "set"
  /\ ~last.inserted
  /\ HasValue(last.old)
  /\ Len(ttl_index_) = 2
  /\ ttl_index_[1].time = ttl_index_[2].time
  /\ ttl_index_[1].key # last.key

\* The expiry of a stored key has passed at clock reading `now`.
Expired(key_index, k, now) ==
  HasValue(key_index[k].expiry) /\ ValueOf(key_index[k].expiry) <= now

\* C4: a get of key k that follows set(k, v, ttl) with the clock unchanged
\* returns v, whether k was new, stored, or expired and not yet reaped.
C4_SetThenGet ==
  [][(last.op = "set" /\ last'.op = "get" /\ last'.key = last.key
        /\ clock' = clock)
     => last'.result = Some(last.value)]_vars

\* C4 witness: get has returned the value of a set with ttl > 0 that
\* overwrote an expired, not yet reaped record.
C4_Witness ==
  /\ last.op = "get"
  /\ HasValue(last.prev)
  /\ ValueOf(last.prev).op = "set"
  /\ ~ValueOf(last.prev).inserted
  /\ HasValue(ValueOf(last.prev).old)
  /\ ValueOf(ValueOf(last.prev).old) <= last.now
  /\ ValueOf(last.prev).ttl > 0
  /\ last.result = Some(ValueOf(last.prev).value)

\* C5: while a key's latest set had ttl = T > 0 at clock reading t0 and the
\* key was not removed since, get returns the value set at every clock
\* reading < t0 + T and absent at every clock reading >= t0 + T.
C5_TtlBoundary ==
  (last.op = "get" /\ last.key \in DOMAIN latest
     /\ latest[last.key].ttl > 0)
  => last.result =
       IF last.now < latest[last.key].t0 + latest[last.key].ttl
       THEN Some(latest[last.key].value)
       ELSE Nullopt

\* C5 witness: get reported a key absent at exactly t0 + T.
C5_Witness ==
  /\ last.op = "get"
  /\ last.key \in DOMAIN latest
  /\ latest[last.key].ttl > 0
  /\ last.now = latest[last.key].t0 + latest[last.key].ttl
  /\ last.result = Nullopt

\* C6: after set(k, v, ttl) on a key that was stored, the record holds v
\* and the expiry is absent for ttl = 0 and now + ttl for ttl > 0, whatever
\* the expiry was before; and a get at or after now + ttl of the latest set
\* is absent.
C6_SetResetsTtl ==
  /\ (last.op = "set" /\ ~last.inserted)
     => /\ last.key \in DOMAIN key_index_
        /\ key_index_[last.key].value = last.value
        /\ key_index_[last.key].expiry =
             IF last.ttl = 0 THEN Nullopt ELSE Some(last.now + last.ttl)
  /\ (last.op = "get" /\ last.key \in DOMAIN latest
        /\ latest[last.key].ttl > 0
        /\ last.now >= latest[last.key].t0 + latest[last.key].ttl)
     => last.result = Nullopt

\* C6 witness: a stored key without expiry has been set with ttl > 0.
C6_Witness ==
  /\ last.op = "set"
  /\ ~last.inserted
  /\ last.old = Nullopt
  /\ last.ttl > 0
  /\ key_index_[last.key].expiry = Some(last.now + last.ttl)

\* C7: remove(k) returns true iff k is in the Primary Index at the call,
\* expired or not; after a true return k is in none of the three indices,
\* and a get(k) or remove(k) that follows at once returns absent / false.
C7_Remove ==
  [][/\ last'.op = "remove"
        => /\ last'.result = (last'.key \in DOMAIN key_index_)
           /\ last'.result
                => /\ last'.key \notin DOMAIN key_index_'
                   /\ \A i \in 1..Len(sorted_index_') :
                        sorted_index_'[i].key # last'.key
                   /\ \A i \in 1..Len(ttl_index_') :
                        ttl_index_'[i].key # last'.key
     /\ (last.op = "remove" /\ last.result /\ last'.op = "get"
           /\ last'.key = last.key)
        => last'.result = Nullopt
     /\ (last.op = "remove" /\ last.result /\ last'.op = "remove"
           /\ last'.key = last.key)
        => last'.result = FALSE]_vars

\* C7 witness: remove returned false right after it had returned true for
\* the same key, whose record was expired and not yet reaped.
C7_Witness ==
  /\ last.op = "remove"
  /\ last.result = FALSE
  /\ HasValue(last.prev)
  /\ ValueOf(last.prev).op = "remove"
  /\ ValueOf(last.prev).result = TRUE
  /\ HasValue(ValueOf(last.prev).old)
  /\ ValueOf(ValueOf(last.prev).old) <= ValueOf(last.prev).now

\* C8: remove(k) for a key that is not in the Primary Index returns false
\* and leaves the three indices as they were.
C8_RemoveAbsent ==
  [][(last'.op = "remove" /\ last'.key \notin DOMAIN key_index_)
     => (last'.result = FALSE /\ UNCHANGED indices)]_vars

\* C8 witness: remove returned false for a key that lies between two
\* stored keys, one of them with an expiry.
C8_Witness ==
  /\ last.op = "remove"
  /\ last.result = FALSE
  /\ last.key = <<1>>
  /\ Len(sorted_index_) = 2
  /\ Len(ttl_index_) >= 1

\* C9: get and getManySorted leave the three indices as they were; an
\* expired record that get reported absent, or getManySorted skipped, is
\* still stored, a remove of it that follows returns true, and a
\* removeOneExpiredEntry that follows returns an entry (that very record
\* when it is the minimum of the Ttl Index).
C9_ReadsDoNotMutate ==
  [][/\ last'.op \in {"get", "getManySorted"} => UNCHANGED indices
     /\ (last'.op = "get" /\ last'.key \in DOMAIN key_index_
           /\ Expired(key_index_, last'.key, clock))
        => /\ last'.result = Nullopt
           /\ last'.key \in DOMAIN key_index_'
           /\ \E i \in 1..Len(ttl_index_') :
                ttl_index_'[i].key = last'.key
     /\ (last.op \in {"get", "getManySorted"} /\ last'.op = "remove"
           /\ last.now = clock
           /\ last'.key \in DOMAIN key_index_
           /\ Expired(key_index_, last'.key, clock))
        => last'.result = TRUE
     /\ (last.op \in {"get", "getManySorted"}
           /\ last'.op = "removeOneExpiredEntry"
           /\ \E k \in DOMAIN key_index_ : Expired(key_index_, k, clock))
        => /\ HasValue(last'.result)
           /\ ValueOf(last'.result)[1] = ttl_index_[1].key]_vars

\* C9 witness: remove returned true for an expired record right after get
\* had reported that record absent.
C9_Witness ==
  /\ last.op = "remove"
  /\ last.result = TRUE
  /\ HasValue(last.old)
  /\ ValueOf(last.old) <= last.now
  /\ HasValue(last.prev)
  /\ ValueOf(last.prev).op = "get"
  /\ ValueOf(last.prev).result = Nullopt
  /\ ValueOf(last.prev).now = last.now

\* The stored keys that getManySorted(key, ...) may return at `now`: not
\* less than key and with an expiry that is absent or strictly later.
Eligible(key, now) ==
  {k \in DOMAIN key_index_ :
     ~KeyLess(k, key) /\ ~Expired(key_index_, k, now)}

Min(a, b) == IF a <= b THEN a ELSE b

\* C10: getManySorted(key, count) returns exactly the first min(count, m)
\* of the m eligible entries, in ascending key order with their current
\* values.
C10_GetManySorted ==
  [][last'.op = "getManySorted"
     => LET r == last'.result
            M == Eligible(last'.key, last'.now)
            R == {r[i][1] : i \in 1..Len(r)}
        IN /\ Len(r) = Min(last'.count, Cardinality(M))
           /\ R \subseteq M
           /\ \A i \in 1..Len(r) : r[i][2] = key_index_[r[i][1]].value
           /\ \A i, j \in 1..Len(r) : i < j => KeyLess(r[i][1], r[j][1])
           /\ \A k \in M \ R : \A i \in 1..Len(r) : KeyLess(r[i][1], k)]_vars

\* C10 witness: with count = 1 and the query key stored but expired, the
\* call skipped it and returned the next key.
C10_Witness ==
  /\ last.op = "getManySorted"
  /\ last.count = 1
  /\ last.key \in DOMAIN key_index_
  /\ Expired(key_index_, last.key, last.now)
  /\ Len(last.result) = 1
  /\ last.result[1][1] # last.key

\* C11: a getManySorted(key, count) call visits at most count positions of
\* the Sorted Index, also when some of the visited entries are expired.
C11_VisitsBoundedByCount ==
  last.op = "getManySorted" => last.visited <= last.count

\* C12: whenever removeOneExpiredEntry returns (k, v), k was stored with a
\* finite expiry not later than the time the call sampled, no Ttl Index
\* node had an earlier time, v was the value of k's record, and the call
\* removed k and nothing else from the three indices.
C12_ReapReturnsMinimum ==
  [][(last'.op = "removeOneExpiredEntry" /\ HasValue(last'.result))
     => LET k == ValueOf(last'.result)[1]
            v == ValueOf(last'.result)[2]
        IN /\ k \in DOMAIN key_index_
           /\ HasValue(key_index_[k].expiry)
           /\ ValueOf(key_index_[k].expiry) <= last'.now
           /\ \A i \in 1..Len(ttl_index_) :
                ValueOf(key_index_[k].expiry) <= ttl_index_[i].time
           /\ v = key_index_[k].value
           /\ DOMAIN key_index_' = DOMAIN key_index_ \ {k}
           /\ \A j \in DOMAIN key_index_' : key_index_'[j] = key_index_[j]
           /\ SortedKeys' = SortedKeys \ {k}
           /\ TtlKeys' = TtlKeys \ {k}]_vars

\* C12 witness: removeOneExpiredEntry returned an entry while the other
\* stored key keeps a Ttl Index node whose time is still in the future.
C12_Witness ==
  /\ last.op = "removeOneExpiredEntry"
  /\ HasValue(last.result)
  /\ Len(ttl_index_) = 1
  /\ ttl_index_[1].time > last.now

\* C13: a removeOneExpiredEntry call made when no stored record has expired
\* (the Ttl Index is empty, or its earliest time is later than the clock)
\* returns absent and leaves the three indices as they were, so the full
\* enumeration of the store is the same before and after.
C13_ReapNothingExpired ==
  [][(/\ last'.op = "removeOneExpiredEntry"
      /\ \/ \A k \in DOMAIN key_index_ : ~Expired(key_index_, k, clock)
         \/ ttl_index_ = << >>
         \/ ttl_index_[1].time > clock)
     => /\ last'.result = Nullopt
        /\ UNCHANGED indices
        /\ getManySorted(Cur', << >>, Cardinality(Keys), clock').result
             = getManySorted(Cur, << >>, Cardinality(Keys), clock).result]_vars

\* C13 witness: removeOneExpiredEntry returned absent while the Ttl Index
\* held a node whose time was still in the future.
C13_Witness ==
  /\ last.op = "removeOneExpiredEntry"
  /\ last.result = Nullopt
  /\ ttl_index_ # << >>
  /\ ttl_index_[1].time > last.now
  /\ last.now > 0

\* The stored keys whose expiry has passed at clock reading `now`.
ExpiredKeys(key_index, now) ==
  {k \in DOMAIN key_index : Expired(key_index, k, now)}

\* C14: with the clock fixed, every removeOneExpiredEntry call made while
\* n > 0 stored records are expired returns one of them and removes that
\* record only, leaving n - 1 expired records; a call made while none is
\* expired returns absent; two calls in a row never return the same key.
\* Hence n calls return the n expired keys and call n + 1 returns absent.
C14_ReapOneAtATime ==
  [][last'.op = "removeOneExpiredEntry"
     => LET E == ExpiredKeys(key_index_, clock)
            E2 == ExpiredKeys(key_index_', clock')
        IN /\ E = {} => last'.result = Nullopt
           /\ E # {}
                => /\ HasValue(last'.result)
                   /\ ValueOf(last'.result)[1] \in E
                   /\ DOMAIN key_index_'
                        = DOMAIN key_index_ \ {ValueOf(last'.result)[1]}
                   /\ E2 = E \ {ValueOf(last'.result)[1]}
                   /\ Cardinality(E2) = Cardinality(E) - 1
           /\ (/\ last.op = "removeOneExpiredEntry"
               /\ HasValue(last.result)
               /\ HasValue(last'.result))
                => ValueOf(last'.result)[1] # ValueOf(last.result)[1]]_vars

\* C14 witness: with two records expired, two removeOneExpiredEntry calls in
\* a row at the same clock reading each returned an entry, for two keys.
C14_Witness ==
  /\ last.op = "removeOneExpiredEntry"
  /\ HasValue(last.result)
  /\ HasValue(last.prev)
  /\ HasValue(ValueOf(last.prev).result)
  /\ ValueOf(last.prev).now = last.now
  /\ ValueOf(ValueOf(last.prev).result)[1] # ValueOf(last.result)[1]
  /\ key_index_ = << >>

\* The store that results from calling set_impl for each triple of
\* `entries` in order, every call with the same `now`.
RECURSIVE SetEach(_, _, _)
SetEach(S, entries, now) ==
  IF entries = << >> THEN S
  ELSE LET n == Len(entries)
           e == entries[n]
       IN set_impl(SetEach(S, SubSeq(entries, 1, n - 1), now),
                   e[1], e[2], e[3], now)

\* The position of the last triple of `entries` that names key k.
LastOccurrence(entries, k) ==
  CHOOSE i \in 1..Len(entries) :
    /\ entries[i][1] = k
    /\ \A j \in (i + 1)..Len(entries) : entries[j][1] # k

\* C15: the store constructed from a sequence of (key, value, ttl) triples
\* is the store that results from set on each triple in order with one
\* shared now: its keys are the keys of the triples, each key has the value
\* of its last triple, and its expiry is absent when that triple's ttl is 0
\* and otherwise the construction time plus that ttl.
C15_Constructor ==
  last.op = "construct"
    => LET entries == last.result
           S == SetEach(EmptyStore, entries, last.now)
       IN /\ key_index_ = S.key_index_
          /\ sorted_index_ = S.sorted_index_
          /\ ttl_index_ = S.ttl_index_
          /\ DOMAIN key_index_ = {entries[i][1] : i \in 1..Len(entries)}
          /\ \A k \in DOMAIN key_index_ :
               LET e == entries[LastOccurrence(entries, k)] IN
               /\ key_index_[k].value = e[2]
               /\ key_index_[k].expiry
                    = IF e[3] = 0 THEN Nullopt ELSE Some(last.now + e[3])

\* C15 witness: the store was constructed from two triples for one key that
\* differ in value and in ttl, the second with a ttl.
C15_Witness ==
  /\ last.op = "construct"
  /\ Len(last.result) = 2
  /\ last.result[1][1] = last.result[2][1]
  /\ last.result[1][2] # last.result[2][2]
  /\ last.result[1][3] # last.result[2][3]
  /\ last.result[2][3] > 0
  /\ key_index_[last.result[2][1]].value = last.result[2][2]

\* The clock readings a later call may sample, past every stored expiry.
LaterTimes == 0..(MaxTime + MaxTtl + 1)

\* C16: a key whose latest set or constructor triple had ttl = 0, and that
\* has not been removed since, never expires: its record has no expiry and
\* no Ttl Index node, and at every clock reading get returns its value, a
\* full getManySorted includes it, and removeOneExpiredEntry does not return
\* it; the get and getManySorted calls actually made agree.
C16_ZeroTtlNeverExpires ==
  /\ \A k \in DOMAIN latest :
       latest[k].ttl = 0
         => /\ k \in DOMAIN key_index_
            /\ key_index_[k].expiry = Nullopt
            /\ k \notin TtlKeys
            /\ \A t \in LaterTimes :
                 /\ get(Cur, k, t).result = Some(latest[k].value)
                 /\ LET r == getManySorted(Cur, << >>,
                                           Cardinality(DOMAIN key_index_),
                                           t).result
                    IN \E i \in 1..Len(r) : r[i] = <<k, latest[k].value>>
                 /\ LET r == removeOneExpiredEntry(Cur, t).result
                    IN HasValue(r) => ValueOf(r)[1] # k
  /\ (last.op = "get" /\ last.key \in DOMAIN latest
        /\ latest[last.key].ttl = 0)
     => last.result = Some(latest[last.key].value)
  /\ (last.op = "getManySorted" /\ last.count >= 1)
     => \A k \in DOMAIN latest :
          (latest[k].ttl = 0 /\ ~KeyLess(k, last.key)
             /\ \A j \in DOMAIN key_index_ :
                  (KeyLess(j, k) /\ ~KeyLess(j, last.key))
                    => Expired(key_index_, j, last.now))
            => last.result[1] = <<k, latest[k].value>>

\* C16 witness: after the clock passed the expiry a key had, get returned
\* the value given by a set with ttl = 0 made on that key just before, when
\* its old expiry had already passed.
C16_Witness ==
  /\ last.op = "get"
  /\ HasValue(last.result)
  /\ HasValue(last.prev)
  /\ ValueOf(last.prev).op = "set"
  /\ ValueOf(last.prev).ttl = 0
  /\ HasValue(ValueOf(last.prev).old)
  /\ ValueOf(ValueOf(last.prev).old) <= ValueOf(last.prev).now
  /\ last.result = Some(ValueOf(last.prev).value)

\* C17: in a store from which every record has been removed the Sorted
\* Index and the Ttl Index are empty as well, and whatever call is made
\* next reports nothing: get is absent, getManySorted is empty for every
\* key and count, removeOneExpiredEntry is absent and remove is false.
C17_EmptyStore ==
  [][DOMAIN key_index_ = {}
     => /\ sorted_index_ = << >>
        /\ ttl_index_ = << >>
        /\ last'.op = "get" => last'.result = Nullopt
        /\ last'.op = "getManySorted" => last'.result = << >>
        /\ last'.op = "removeOneExpiredEntry" => last'.result = Nullopt
        /\ last'.op = "remove" => last'.result = FALSE
        /\ last'.op \in {"get", "getManySorted", "removeOneExpiredEntry",
                         "remove"} => UNCHANGED indices]_vars

\* C17 witness: removeOneExpiredEntry returned absent on a store that the
\* call before it had emptied by reaping the last record.
C17_Witness ==
  /\ last.op = "removeOneExpiredEntry"
  /\ last.result = Nullopt
  /\ HasValue(last.prev)
  /\ HasValue(ValueOf(last.prev).result)
  /\ DOMAIN key_index_ = {}
  /\ sorted_index_ = << >>
  /\ ttl_index_ = << >>

\* C18: edge inputs are ordinary: no call executes undefined behaviour;
\* getManySorted with count = 0, or with a key greater than every stored
\* key, returns the empty sequence and changes nothing; the empty string as
\* key is stored by set, looked up by get, removed by remove, and as range
\* start makes a large enough getManySorted return every unexpired entry.
C18_EdgeInputs ==
  [][/\ ub' = FALSE
     /\ (last'.op = "getManySorted" /\ last'.count = 0)
        => (last'.result = << >> /\ UNCHANGED indices)
     /\ (last'.op = "getManySorted"
           /\ \A k \in DOMAIN key_index_ : KeyLess(k, last'.key))
        => (last'.result = << >> /\ UNCHANGED indices)
     /\ (last'.op = "getManySorted" /\ last'.key = << >>
           /\ last'.count >= Cardinality(DOMAIN key_index_))
        => /\ {last'.result[i] : i \in 1..Len(last'.result)}
                = {<<k, key_index_[k].value>> : k \in Eligible(<< >>, clock)}
           /\ UNCHANGED indices
     /\ (last'.op = "set" /\ last'.key = << >>)
        => /\ << >> \in DOMAIN key_index_'
           /\ key_index_'[<< >>].value = last'.value
           /\ << >> \in SortedKeys'
     /\ (last'.op = "get" /\ last'.key = << >>)
        => /\ last'.result
                = IF << >> \in DOMAIN key_index_
                     /\ ~Expired(key_index_, << >>, clock)
                  THEN Some(key_index_[<< >>].value)
                  ELSE Nullopt
           /\ UNCHANGED indices
     /\ (last'.op = "remove" /\ last'.key = << >>)
        => /\ last'.result = (<< >> \in DOMAIN key_index_)
           /\ << >> \notin DOMAIN key_index_'
           /\ << >> \notin SortedKeys'
           /\ << >> \notin TtlKeys']_vars

\* C18 witness: with two keys stored, getManySorted was called with a key
\* greater than both and a positive count, and returned the empty sequence.
C18_Witness ==
  /\ last.op = "getManySorted"
  /\ last.count > 0
  /\ Cardinality(DOMAIN key_index_) = 2
  /\ \A k \in DOMAIN key_index_ : KeyLess(k, last.key)
  /\ last.result = << >>

\* The nodes of an index that do not belong to key k.
NodesNotOf(tree, k) == {tree[i] : i \in {j \in 1..Len(tree) : tree[j].key # k}}

\* A call on key k left every other key's record (value, expiry and both
\* handles) and every other key's Sorted Index and Ttl Index node as it was.
OthersUntouched(k) ==
  /\ DOMAIN key_index_ \ {k} = DOMAIN key_index_' \ {k}
  /\ \A j \in DOMAIN key_index_ \ {k} : key_index_'[j] = key_index_[j]
  /\ NodesNotOf(sorted_index_', k) = NodesNotOf(sorted_index_, k)
  /\ NodesNotOf(ttl_index_', k) = NodesNotOf(ttl_index_, k)
  /\ \A j \in DOMAIN key_index_ \ {k} :
       HasValue(key_index_[j].expiry)
         => \E i \in 1..Len(ttl_index_') :
              /\ ttl_index_'[i].id = key_index_[j].ttl_it
              /\ ttl_index_'[i].key = j
              /\ ttl_index_'[i].time = ValueOf(key_index_[j].expiry)

\* C19: set(K, ...), remove(K) and a removeOneExpiredEntry call that reaps K
\* leave every other key's Primary Index record, Sorted Index node and Ttl
\* Index node unchanged, also when the other key's expiry equals K's.
C19_OtherKeysUntouched ==
  [][/\ last'.op \in {"set", "remove"} => OthersUntouched(last'.key)
     /\ (last'.op = "removeOneExpiredEntry" /\ HasValue(last'.result))
        => OthersUntouched(ValueOf(last'.result)[1])]_vars

\* C19 witness: remove returned true for a key with an expiry while the
\* other stored key keeps its Ttl Index node of the same expiry time.
C19_Witness ==
  /\ last.op = "remove"
  /\ last.result = TRUE
  /\ HasValue(last.old)
  /\ Len(ttl_index_) = 1
  /\ ttl_index_[1].time = ValueOf(last.old)
  /\ ttl_index_[1].key # last.key

\* C20: whenever removeOneExpiredEntry returns (k, v), the three indices it
\* leaves are the ones remove(k) produces from the same state, and remove(k)
\* would have returned true.
C20_ReapIsRemove ==
  [][(last'.op = "removeOneExpiredEntry" /\ HasValue(last'.result))
     => LET r == remove(Cur, ValueOf(last'.result)[1])
        IN /\ r.result = TRUE
           /\ key_index_' = r.S.key_index_
           /\ sorted_index_' = r.S.sorted_index_
           /\ ttl_index_' = r.S.ttl_index_]_vars

\* C20 witness: removeOneExpiredEntry returned one of two stored entries;
\* the one that stays has no expiry.
C20_Witness ==
  /\ last.op = "removeOneExpiredEntry"
  /\ HasValue(last.result)
  /\ Cardinality(DOMAIN key_index_) = 1
  /\ Len(sorted_index_) = 1
  /\ ttl_index_ = << >>

\* C21: set on a key that is already stored leaves the Sorted Index as it
\* was, node for node, and leaves the key's sorted_it handle as it was; the
\* records and nodes of the other keys do not change either, so only the
\* value, the expiry and the Ttl Index node of that key may differ.
C21_SetExistingKeepsSorted ==
  [][(last'.op = "set" /\ ~last'.inserted)
     => /\ last'.key \in DOMAIN key_index_
        /\ sorted_index_' = sorted_index_
        /\ key_index_'[last'.key].sorted_it = key_index_[last'.key].sorted_it
        /\ \E i \in 1..Len(sorted_index_') :
             /\ sorted_index_'[i].id = key_index_'[last'.key].sorted_it
             /\ sorted_index_'[i].key = last'.key
        /\ DOMAIN key_index_' = DOMAIN key_index_
        /\ \A j \in DOMAIN key_index_ \ {last'.key} :
             key_index_'[j] = key_index_[j]
        /\ NodesNotOf(ttl_index_', last'.key)
             = NodesNotOf(ttl_index_, last'.key)]_vars

\* C21 witness: with two keys stored, set was called on the greater one,
\* which was stored with an expiry, and gave it another expiry.
C21_Witness ==
  /\ last.op = "set"
  /\ ~last.inserted
  /\ Len(sorted_index_) = 2
  /\ sorted_index_[2].key = last.key
  /\ HasValue(last.old)
  /\ last.ttl > 0
  /\ last.old # Some(last.now + last.ttl)

\* C22: removeOneExpiredEntry never misses an expired record.  At every
\* clock reading at which some stored record is expired, the earliest Ttl
\* Index node is itself expired and the call returns an entry; and right
\* after a call that returned absent no stored record is expired.
C22_ReapNeverMisses ==
  /\ \A t \in LaterTimes :
       ExpiredKeys(key_index_, t) # {}
         => /\ ttl_index_ # << >>
            /\ ttl_index_[1].time <= t
            /\ ttl_index_[1].key \in ExpiredKeys(key_index_, t)
            /\ HasValue(removeOneExpiredEntry(Cur, t).result)
  /\ (last.op = "removeOneExpiredEntry" /\ last.result = Nullopt)
     => ExpiredKeys(key_index_, last.now) = {}

\* C22 witness: at one clock reading removeOneExpiredEntry returned an
\* entry and then absent, and the record that stays has an expiry, which
\* is still in the future.
C22_Witness ==
  /\ last.op = "removeOneExpiredEntry"
  /\ last.result = Nullopt
  /\ HasValue(last.prev)
  /\ HasValue(ValueOf(last.prev).result)
  /\ ValueOf(last.prev).now = last.now
  /\ ttl_index_ # << >>
  /\ ExpiredKeys(key_index_, last.now) = {}

\* The set of the entries of a sequence.
Range(seq) == {seq[i] : i \in 1..Len(seq)}

\* The pairs (k, v) for which get(k) returns v at clock reading t.
VisibleByGet(t) ==
  {<<k, ValueOf(get(Cur, k, t).result)>> :
     k \in {j \in QueryKeys : HasValue(get(Cur, j, t).result)}}

\* C23: get and getManySorted agree on what is visible.  In every reachable
\* state and at every clock reading, a getManySorted from the empty key with
\* a count of at least the number of stored keys contains the pair (k, v)
\* exactly when get(k) returns v; a full getManySorted actually made agrees
\* with get in the same way.
C23_ReadPathsAgree ==
  /\ \A t \in LaterTimes :
       \A n \in Cardinality(DOMAIN key_index_)..(Cardinality(Keys) + 1) :
         Range(getManySorted(Cur, << >>, n, t).result) = VisibleByGet(t)
  /\ (last.op = "getManySorted" /\ last.key = << >>
        /\ last.count >= Cardinality(DOMAIN key_index_))
     => Range(last.result) = VisibleByGet(last.now)

\* C23 witness: a getManySorted from the empty key with count 2 returned
\* the second of two stored entries only, the first being expired and not
\* reaped.
C23_Witness ==
  /\ last.op = "getManySorted"
  /\ last.key = << >>
  /\ last.count = 2
  /\ Len(sorted_index_) = 2
  /\ Len(last.result) = 1
  /\ last.result[1][1] = sorted_index_[2].key
  /\ Expired(key_index_, sorted_index_[1].key, last.now)

\* C24: with a clock that never goes back, a stored key that get reports
\* absent because its expiry has passed stays absent for get until set is
\* called on that key: after any other call or clock advance get still
\* reports it absent, and a get made on it returns absent.
C24_InvisibilityStable ==
  [][\A k \in Keys :
       (/\ k \in DOMAIN key_index_
        /\ Expired(key_index_, k, clock)
        /\ ~(last'.op = "set" /\ last'.key = k))
       => /\ get(Cur, k, clock).result = Nullopt
          /\ get(Cur', k, clock').result = Nullopt
          /\ (last'.op = "get" /\ last'.key = k) => last'.result = Nullopt
          /\ k \in DOMAIN key_index_' => Expired(key_index_', k, clock')]_vars

\* C24 witness: get reported a stored key absent after the other key had
\* been set at or after the first key's expiry time.
C24_Witness ==
  /\ last.op = "get"
  /\ last.result = Nullopt
  /\ last.key \in DOMAIN key_index_
  /\ Expired(key_index_, last.key, last.now)
  /\ \E j \in DOMAIN latest \ {last.key} :
       /\ latest[j].ttl > 0
       /\ latest[j].t0 >= ValueOf(key_index_[last.key].expiry)
====
